---- MODULE Spec2Model ----
(***************************************************************************)
(* Model of the SnapMap repository:                                        *)
(*   - uploadToAzure (the blob upload utility), against a model of the     *)
(*     Azure Blob service holding one container and its blobs;             *)
(*   - RegisterUserScreen.handleSubmit (the signup form), against a model  *)
(*     of React state (committed state vs. the snapshot a render closes    *)
(*     over) and of the awaited calls (getToken, fetch, text, reload).     *)
(* Strings are sequences of one-character strings.                         *)
(***************************************************************************)
EXTENDS Integers, Sequences, FiniteSets, TLC

\* ------------------------------------------------------------------------
\* Bounds
\* ------------------------------------------------------------------------
\* number of invocations of uploadToAzure
NumCalls == 2

Calls == 1..NumCalls

\* ------------------------------------------------------------------------
\* JavaScript values
\* ------------------------------------------------------------------------
Undefined == [t |-> "undefined", v |-> <<>>]

Null == [t |-> "null", v |-> <<>>]

Str(s) == [t |-> "string", v |-> s]

\* a Buffer (an object) holding the bytes b
Buf(b) == [t |-> "object", v |-> b]

\* ToBoolean, as used by `!buffer`, `!fileName`, `!process.env...`: an
\* object is truthy whatever it holds, a string is truthy when not empty
Truthy(x) ==
  CASE x.t = "undefined" -> FALSE
    [] x.t = "string"    -> Len(x.v) > 0
    [] x.t = "null"      -> FALSE
    [] x.t = "object"    -> TRUE

\* the values a caller passes as buffer
Buffers == {Undefined, Buf(<<>>), Buf(<<1>>), Buf(<<2>>)}

\* the values a caller passes as fileName
FileNames == {Undefined, Str(<<>>), Str(<<"a">>), Str(<<"a", " ", "b">>)}

\* the blob names the service can hold
BlobNames == {n.v : n \in {m \in FileNames : Truthy(m)}}

\* process.env.AZURE_STORAGE_CONNECTION: unset, set to "", or set
ConnStr == <<"h", ":", "/", "/", "s">>

ConnValues == {Undefined, Str(<<>>), Str(ConnStr)}

CONTAINER_NAME == <<"s", "n", "a", "p", "m", "a", "p", "-", "b", "l", "o", "b">>

\* ------------------------------------------------------------------------
\* Pure helpers of uploadToAzure
\* ------------------------------------------------------------------------
\* the SDK escapes the blob name when it builds the blob client's URL
\* (encodeURIComponent per path segment, "/" kept)
EscapeChar(c) ==
  CASE c = " " -> <<"%", "2", "0">>
    [] c = "%" -> <<"%", "2", "5">>
    [] OTHER   -> <<c>>

RECURSIVE EscapePath(_)
EscapePath(s) ==
  IF s = <<>> THEN <<>> ELSE EscapeChar(Head(s)) \o EscapePath(Tail(s))

\* BlobServiceClient.fromConnectionString(...).url : the account endpoint
AccountUrl(conn) == conn.v

\* blobServiceClient.getContainerClient(CONTAINER_NAME).url
ContainerUrl(conn) == AccountUrl(conn) \o <<"/">> \o CONTAINER_NAME

BlobUrlOtherContainer(conn, fileName) ==
  AccountUrl(conn) \o <<"/">> \o <<"b", "l", "o", "b">> \o <<"/">> \o EscapePath(fileName.v)

\* containerClient.getBlockBlobClient(fileName).url
BlobUrl(conn, fileName) ==
  ContainerUrl(conn) \o <<"/">> \o EscapePath(fileName.v)

\* `throw new error(msg)`: the identifier `error` is bound nowhere in the
\* module (only BlobServiceClient is imported), so evaluating it throws a
\* ReferenceError before any object carrying msg is built.
ThrowNewError(msg) ==
  [kind |-> "error", name |-> "ReferenceError",
   message |-> "error is not defined", url |-> <<>>]

\* an error thrown by an SDK call, passed on unchanged
RestError ==
  [kind |-> "error", name |-> "RestError", message |-> "service", url |-> <<>>]

\* the promise of an invocation that has not settled
Pending == [kind |-> "pending", name |-> "", message |-> "", url |-> <<>>]

\* the promise fulfilled with blockBlobClient.url
Returned(url) == [kind |-> "url", name |-> "", message |-> "", url |-> url]

PreconditionErrorNoConnCheck(buffer, fileName, conn) ==
  IF ~Truthy(buffer) \/ ~Truthy(fileName)
    THEN ThrowNewError("Buffer and Filename are required")
    ELSE Pending

\* lines 6-10: the two guards, in order; Pending when both pass
PreconditionError(buffer, fileName, conn) ==
  IF ~Truthy(buffer) \/ ~Truthy(fileName)
    THEN ThrowNewError("Buffer and Filename are required")
    ELSE IF ~Truthy(conn)
      THEN ThrowNewError("Connection string is required")
      ELSE Pending

\* the service's Put Blob with no access conditions: replaces the content
PutBlobKeepExisting(store, name, buffer) ==
  IF store[name] = Undefined THEN [store EXCEPT ![name] = buffer] ELSE store

PutBlobAppend(store, name, buffer) ==
  [store EXCEPT ![name] = IF @ = Undefined THEN buffer ELSE Buf(@.v \o buffer.v)]

PutBlob(store, name, buffer) == [store EXCEPT ![name] = buffer]

\* Create Container answers 409 ContainerAlreadyExists when it exists;
\* createIfNotExists swallows that answer.  TRUE: the call throws.
CreateThrowsWhenExists(exists, outcome) == outcome = "fail" \/ exists

CreateIfNotExistsThrows(exists, outcome) == outcome = "fail"

\* position after a failed createIfNotExists if the rejection were swallowed
AfterCreateFailureContinue == "uploadData"

\* position after a failed createIfNotExists: the rejection leaves the function
AfterCreateFailure == "done"

VARIABLES
  conn,             \* process.env.AZURE_STORAGE_CONNECTION
  containerExists,  \* service: the container snapmap-blob exists
  blobs,            \* service: blob name -> stored content or Undefined
  netlog,           \* the network operations issued, in service order
  upc,              \* per invocation: idle, createIfNotExists, uploadData, done
  ubuffer,          \* per invocation: the buffer argument
  ufileName,        \* per invocation: the fileName argument
  uresult,          \* per invocation: Pending, a returned URL or an error
  upred             \* per invocation: the invocations finished when it began

uvars == <<conn, containerExists, blobs, netlog, upc, ubuffer, ufileName,
           uresult, upred>>

VARIABLES
  user,          \* useUser().user is set
  formData,      \* React state
  isSubmitting,  \* React state
  errors,        \* React state: the keys of the errors record
  view,          \* the state the last render closed over
  hpc,           \* per handleSubmit invocation: its position
  hform,         \* per invocation in getToken: the formData its closure holds
  hok,           \* per invocation: response.ok
  hsub,          \* per invocation: its last setIsSubmitting call
  hreload,       \* per invocation: how user.reload() settled
  halert,        \* per invocation: the alert it raised
  posts,         \* the signup POSTs issued: sender, token, body
  navigated,     \* navigation.replace("HomeScreen") was called
  edits          \* number of field edits so far

rvars == <<user, formData, isSubmitting, errors, view, hpc, hform,
           hok, hreload, hsub, halert, posts, navigated, edits>>

vars == <<uvars, rvars>>

UInit ==
  /\ conn \in ConnValues
  /\ containerExists \in BOOLEAN
  /\ blobs = [n \in BlobNames |-> Undefined]
  /\ netlog = <<>>
  /\ upc = [i \in Calls |-> "idle"]
  /\ ubuffer = [i \in Calls |-> Undefined]
  /\ ufileName = [i \in Calls |-> Undefined]
  /\ uresult = [i \in Calls |-> Pending]
  /\ upred = [i \in Calls |-> {}]

\* uploadToAzure(buffer, fileName) up to its first await; invocations are
\* numbered in the order they begin
Call(i, buffer, fileName) ==
  /\ upc[i] = "idle"
  /\ \A k \in Calls : k < i => upc[k] # "idle"
  /\ ubuffer' = [ubuffer EXCEPT ![i] = buffer]
  /\ ufileName' = [ufileName EXCEPT ![i] = fileName]
  /\ upred' = [upred EXCEPT ![i] = {k \in Calls : upc[k] = "done"}]
  /\ LET e == PreconditionError(buffer, fileName, conn) IN
       IF e # Pending
         THEN /\ upc' = [upc EXCEPT ![i] = "done"]
              /\ uresult' = [uresult EXCEPT ![i] = e]
         ELSE /\ upc' = [upc EXCEPT ![i] = "createIfNotExists"]
              /\ UNCHANGED uresult
  /\ UNCHANGED <<conn, containerExists, blobs, netlog>>
  /\ UNCHANGED rvars

\* await containerClient.createIfNotExists({access: "blob"})
CreateIfNotExists(i, outcome) ==
  /\ upc[i] = "createIfNotExists"
  /\ netlog' = Append(netlog, [op |-> "create", inv |-> i, outcome |-> outcome])
  /\ IF CreateIfNotExistsThrows(containerExists, outcome)
       THEN /\ upc' = [upc EXCEPT ![i] = AfterCreateFailure]
            /\ uresult' = [uresult EXCEPT ![i] = RestError]
            /\ UNCHANGED containerExists
       ELSE /\ upc' = [upc EXCEPT ![i] = "uploadData"]
            /\ containerExists' = TRUE
            /\ UNCHANGED uresult
  /\ UNCHANGED <<conn, blobs, ubuffer, ufileName, upred>>
  /\ UNCHANGED rvars

\* await blockBlobClient.uploadData(buffer); return blockBlobClient.url
UploadData(i, outcome) ==
  /\ upc[i] = "uploadData"
  /\ netlog' = Append(netlog, [op |-> "upload", inv |-> i, outcome |-> outcome])
  /\ upc' = [upc EXCEPT ![i] = "done"]
  /\ IF outcome = "fail"
       THEN /\ uresult' = [uresult EXCEPT ![i] = RestError]
            /\ UNCHANGED blobs
       ELSE /\ blobs' = PutBlob(blobs, ufileName[i].v, ubuffer[i])
            /\ uresult' = [uresult EXCEPT ![i] = Returned(BlobUrl(conn, ufileName[i]))]
  /\ UNCHANGED <<conn, containerExists, ubuffer, ufileName, upred>>
  /\ UNCHANGED rvars

\* uploadToAzure and the storage service
Next ==
  \/ \E i \in Calls, b \in Buffers, f \in FileNames : Call(i, b, f)
  \/ \E i \in Calls, o \in {"ok", "fail"} : CreateIfNotExists(i, o)
  \/ \E i \in Calls, o \in {"ok", "fail"} : UploadData(i, o)

\* ------------------------------------------------------------------------
\* RegisterUserScreen
\* ------------------------------------------------------------------------
\* number of presses of the submit button that reach handleSubmit
MaxPress == 2

\* number of edits of a form field
MaxEdits == 1

Presses == 1..MaxPress

IsSpace(c) == c = " "

RECURSIVE TrimStart(_)
TrimStart(s) ==
  IF s # <<>> /\ IsSpace(Head(s)) THEN TrimStart(Tail(s)) ELSE s

RECURSIVE TrimEnd(_)
TrimEnd(s) ==
  IF s # <<>> /\ IsSpace(s[Len(s)]) THEN TrimEnd(SubSeq(s, 1, Len(s) - 1)) ELSE s

\* String.prototype.trim
Trim(s) == TrimEnd(TrimStart(s))

\* [^\s@]+ : a non-empty run without whitespace and without "@"
NoSpaceAt(s) == s # <<>> /\ \A k \in 1..Len(s) : ~IsSpace(s[k]) /\ s[k] # "@"

\* /^[^\s@]+@[^\s@]+\.[^\s@]+$/.test(s)
EmailRegex(s) ==
  \E i \in 1..Len(s), j \in 1..Len(s) :
    /\ i < j
    /\ s[i] = "@"
    /\ s[j] = "."
    /\ NoSpaceAt(SubSeq(s, 1, i - 1))
    /\ NoSpaceAt(SubSeq(s, i + 1, j - 1))
    /\ NoSpaceAt(SubSeq(s, j + 1, Len(s)))

\* validateForm: the keys of newErrors
ValidateErrors(f) ==
  (IF Trim(f.name) = <<>> THEN {"name"} ELSE {})
  \cup (IF Trim(f.email) = <<>> THEN {"email"}
        ELSE IF ~EmailRegex(f.email) THEN {"email"} ELSE {})
  \cup (IF Trim(f.collegeName) = <<>> THEN {"collegeName"} ELSE {})

\* the values typed into the fields
NameValues == {<<" ">>, <<"n">>}

EmailValues == {<<" ">>, <<"a", "@", "b">>, <<"a", "@", "b", ".", "c">>,
                <<"a", "@", "b", ".", "c", " ">>}

CollegeValues == {<<>>, <<"c">>}

\* useState({name: user?.fullName || ..., email: user?.primaryEmailAddress...,
\* collegeName: "", ...}): the form at construction
InitialForms ==
  [name : {<<>>, <<"n">>},
   email : {<<>>, <<"a", "@", "b", ".", "c">>},
   collegeName : {<<>>}]

FieldValues(field) ==
  CASE field = "name" -> NameValues
    [] field = "email" -> EmailValues
    [] field = "collegeName" -> CollegeValues

\* what a getToken call settles with
TokenOutcomes ==
  {[throws |-> TRUE, val |-> Null]}
  \cup {[throws |-> FALSE, val |-> v] : v \in {Null, Str(<<>>), Str(<<"t">>)}}

\* the record of a setIsSubmitting(v) call
Queued(v) == IF v THEN "true" ELSE "false"

FinallySkipped(cur) == cur

\* finally { setIsSubmitting(false) } : the value it queues
Finally(cur) == FALSE

\* the submit button of a render: disabled={isSubmitting}
PressEnabled(snapshot) == ~snapshot.isSubmitting

OfferedOnAnyResponse(ok) == TRUE

\* line 151: the success alert is reached only when response.ok
SuccessReached(ok) == ok

Snapshot == [formData |-> formData, isSubmitting |-> isSubmitting, errors |-> errors]

RInit ==
  /\ user \in BOOLEAN
  /\ formData \in InitialForms
  /\ isSubmitting = FALSE
  /\ errors = {}
  /\ view = [formData |-> formData, isSubmitting |-> FALSE, errors |-> {}]
  /\ hpc = [j \in Presses |-> "idle"]
  /\ hform = [j \in Presses |-> formData]
  /\ hok = [j \in Presses |-> FALSE]
  /\ hreload = [j \in Presses |-> "none"]
  /\ hsub = [j \in Presses |-> "none"]
  /\ halert = [j \in Presses |-> "none"]
  /\ posts = {}
  /\ navigated = FALSE
  /\ edits = 0

\* React commits the queued state: the component function runs again
Render ==
  /\ view # Snapshot
  /\ view' = Snapshot
  /\ UNCHANGED <<user, formData, isSubmitting, errors, hpc, hform,
                 hok, hreload, hsub, halert, posts, navigated, edits>>
  /\ UNCHANGED uvars

\* updateField(field, value) from a TextInput of the last render
UpdateField(field, value) ==
  /\ edits < MaxEdits
  /\ ~view.isSubmitting
  /\ edits' = edits + 1
  /\ formData' = [formData EXCEPT ![field] = value]
  /\ errors' = IF field \in view.errors THEN errors \ {field} ELSE errors
  /\ UNCHANGED <<user, isSubmitting, view, hpc, hform, hok, hreload, hsub,
                 halert, posts, navigated>>
  /\ UNCHANGED uvars

\* catch (error) { Alert "Registration Failed" } finally { ... }
CatchFinally(j) ==
  /\ halert' = [halert EXCEPT ![j] = "Registration Failed"]
  /\ isSubmitting' = Finally(isSubmitting)
  /\ hsub' = [hsub EXCEPT ![j] = Queued(Finally(isSubmitting))]
  /\ hpc' = [hpc EXCEPT ![j] = "done"]

\* JSON body of the signup POST: the trimmed fields of the closure's formData
Body(f) ==
  [name |-> Trim(f.name), email |-> Trim(f.email),
   collegeName |-> Trim(f.collegeName)]

\* the signup POST leaves: fetch(...) is called
SendPost(j, token) ==
  /\ posts' = posts \cup {[by |-> j, token |-> token, body |-> Body(hform[j])]}
  /\ hpc' = [hpc EXCEPT ![j] = "fetch"]
  /\ UNCHANGED <<isSubmitting, hsub, halert>>

\* onPress={handleSubmit}: handleSubmit up to its first await
Press(j) ==
  /\ hpc[j] = "idle"
  /\ \A k \in Presses : k < j => hpc[k] # "idle"
  /\ PressEnabled(view)
  /\ errors' = ValidateErrors(view.formData)
  /\ IF ValidateErrors(view.formData) # {}
       THEN /\ halert' = [halert EXCEPT ![j] = "Validation Error"]
            /\ hpc' = [hpc EXCEPT ![j] = "done"]
            /\ UNCHANGED <<isSubmitting, hsub, hform>>
       ELSE IF view.isSubmitting
         THEN /\ hpc' = [hpc EXCEPT ![j] = "done"]
              /\ UNCHANGED <<isSubmitting, hsub, halert, hform>>
         ELSE IF ~user
           THEN /\ halert' = [halert EXCEPT ![j] = "Error"]
                /\ isSubmitting' = Finally(FALSE)
                /\ hsub' = [hsub EXCEPT ![j] = Queued(Finally(FALSE))]
                /\ hpc' = [hpc EXCEPT ![j] = "done"]
                /\ UNCHANGED hform
           ELSE /\ isSubmitting' = TRUE
                /\ hsub' = [hsub EXCEPT ![j] = Queued(TRUE)]
                /\ hpc' = [hpc EXCEPT ![j] = "getToken1"]
                /\ hform' = [hform EXCEPT ![j] = view.formData]
                /\ UNCHANGED halert
  /\ UNCHANGED <<user, formData, view, hok, hreload, posts, navigated, edits>>
  /\ UNCHANGED uvars

\* let token = await getToken()
GetToken1(j, o) ==
  /\ hpc[j] = "getToken1"
  /\ IF o.throws
       THEN CatchFinally(j) /\ UNCHANGED posts
       ELSE IF Truthy(o.val)
         THEN SendPost(j, o.val)
         ELSE /\ hpc' = [hpc EXCEPT ![j] = "getToken2"]
              /\ UNCHANGED <<posts, isSubmitting, hsub, halert>>
  /\ UNCHANGED <<user, formData, errors, view, hform, hok, hreload, navigated, edits>>
  /\ UNCHANGED uvars

\* token = await getToken({template: "default"}) in its own try/catch,
\* then the `if (!token)` exit
GetToken2(j, o) ==
  /\ hpc[j] = "getToken2"
  /\ IF ~o.throws /\ Truthy(o.val)
       THEN SendPost(j, o.val)
       ELSE /\ halert' = [halert EXCEPT ![j] = "Error"]
            /\ isSubmitting' = Finally(FALSE)
            /\ hsub' = [hsub EXCEPT ![j] = Queued(Finally(FALSE))]
            /\ hpc' = [hpc EXCEPT ![j] = "done"]
            /\ UNCHANGED posts
  /\ UNCHANGED <<user, formData, errors, view, hform, hok, hreload, navigated, edits>>
  /\ UNCHANGED uvars

\* const response = await fetch(...)
Fetch(j, o) ==
  /\ hpc[j] = "fetch"
  /\ IF o = "throw"
       THEN CatchFinally(j) /\ UNCHANGED hok
       ELSE /\ hok' = [hok EXCEPT ![j] = (o = "ok")]
            /\ hpc' = [hpc EXCEPT ![j] = "text"]
            /\ UNCHANGED <<isSubmitting, hsub, halert>>
  /\ UNCHANGED <<user, formData, errors, view, hform, hreload,
                 posts, navigated, edits>>
  /\ UNCHANGED uvars

\* await response.text() and JSON.parse in their own try/catch, then the
\* `if (!response.ok) throw`, then user.reload() is called
Text(j, o) ==
  /\ hpc[j] = "text"
  /\ IF ~SuccessReached(hok[j])
       THEN CatchFinally(j)
       ELSE /\ hpc' = [hpc EXCEPT ![j] = "reload"]
            /\ UNCHANGED <<isSubmitting, hsub, halert>>
  /\ UNCHANGED <<user, formData, errors, view, hform, hok, hreload, posts,
                 navigated, edits>>
  /\ UNCHANGED uvars

\* await user.reload() in its own try/catch, the success alert, finally
Reload(j, o) ==
  /\ hpc[j] = "reload"
  /\ hreload' = [hreload EXCEPT ![j] = o]
  /\ halert' = [halert EXCEPT ![j] = "Success"]
  /\ isSubmitting' = Finally(isSubmitting)
  /\ hsub' = [hsub EXCEPT ![j] = Queued(Finally(isSubmitting))]
  /\ hpc' = [hpc EXCEPT ![j] = "done"]
  /\ UNCHANGED <<user, formData, errors, view, hform, hok, posts,
                 navigated, edits>>
  /\ UNCHANGED uvars

\* the OK button of the success alert: navigation.replace("HomeScreen")
AlertOk(j) ==
  /\ halert[j] = "Success"
  /\ ~navigated
  /\ navigated' = TRUE
  /\ UNCHANGED <<user, formData, isSubmitting, errors, view, hpc, hform,
                 hok, hreload, hsub, halert, posts, edits>>
  /\ UNCHANGED uvars

\* one awaited call of invocation j settles
Settle(j) ==
  \/ \E o \in TokenOutcomes : GetToken1(j, o)
  \/ \E o \in TokenOutcomes : GetToken2(j, o)
  \/ \E o \in {"ok", "notok", "throw"} : Fetch(j, o)
  \/ \E o \in {"json", "bad"} : Text(j, o)
  \/ \E o \in {"ok", "throw"} : Reload(j, o)

\* the registration screen
RegisterNext ==
  \/ Render
  \/ \E field \in {"name", "email", "collegeName"} :
       \E value \in FieldValues(field) : UpdateField(field, value)
  \/ \E j \in Presses : Press(j)
  \/ \E j \in Presses : Settle(j)
  \/ \E j \in Presses : AlertOk(j)

\* ------------------------------------------------------------------------
\* Specifications
\* ------------------------------------------------------------------------
\* the registration screen before any event, while the uploader runs
RQuiet ==
  /\ user = TRUE
  /\ formData = [name |-> <<"n">>, email |-> <<>>, collegeName |-> <<>>]
  /\ RInit

\* the uploader before any call, while the registration screen runs
UQuiet ==
  /\ conn = Undefined
  /\ containerExists = FALSE
  /\ UInit

Init == UInit /\ RQuiet

\* uploadToAzure and the storage service
Spec == Init /\ [][Next]_vars

RegisterInit == RInit /\ UQuiet

\* the registration screen
SpecRegister == RegisterInit /\ [][RegisterNext]_vars

\* an awaited call settles or React commits queued state
Progress == Render \/ \E j \in Presses : Settle(j)

\* the registration screen when awaited calls settle and React commits
\* queued state: while one of these is pending, one of them happens
FairSpecRegister == SpecRegister /\ WF_vars(Progress)

\* ------------------------------------------------------------------------
\* Properties of uploadToAzure
\* ------------------------------------------------------------------------
\* sub occurs in s
Contains(s, sub) ==
  \E k \in 0..(Len(s) - Len(sub)) : SubSeq(s, k + 1, k + Len(sub)) = sub

\* positions in netlog of the operations op issued by invocation i
OpsOf(i, op) ==
  {k \in 1..Len(netlog) : netlog[k].inv = i /\ netlog[k].op = op}

\* every network operation of invocation i was answered with success
ServiceSucceededFor(i) ==
  \A k \in 1..Len(netlog) : netlog[k].inv = i => netlog[k].outcome = "ok"

\* the invocation passed both guards and reached the network steps
ReachedNetwork(i) ==
  /\ upc[i] # "idle"
  /\ ubuffer[i].t = "object"
  /\ ufileName[i].t = "string" /\ ufileName[i].v # <<>>
  /\ conn.t = "string" /\ conn.v # <<>>

\* buffer undefined, fileName empty or undefined, or no connection string
MissingArgument(i) ==
  \/ ubuffer[i] = Undefined
  \/ ufileName[i] = Undefined
  \/ ufileName[i].v = <<>>
  \/ conn = Undefined

FailedWithoutNetwork(i) ==
  /\ upc[i] = "done"
  /\ uresult[i].kind = "error"
  /\ OpsOf(i, "create") = {} /\ OpsOf(i, "upload") = {}

\* C1 as stated: a call whose buffer is empty or undefined, whose fileName
\* is empty or undefined, or that finds no connection string, fails and
\* issues neither createIfNotExists nor uploadData.
C1_EmptyBufferFailsBeforeNetwork ==
  \A i \in Calls :
    (upc[i] # "idle" /\ (MissingArgument(i) \/ ubuffer[i].v = <<>>))
      => FailedWithoutNetwork(i)

\* C1 amended: a call whose buffer is undefined, whose fileName is empty or
\* undefined, or that finds no connection string, fails and issues neither
\* createIfNotExists nor uploadData (a zero-length Buffer is an object, is
\* truthy and passes the guard).
C1_MissingArgumentFailsBeforeNetwork ==
  \A i \in Calls :
    (upc[i] # "idle" /\ MissingArgument(i)) => FailedWithoutNetwork(i)

\* C1 witness: a call with a buffer and a fileName failed for want of the
\* connection string, with nothing on the wire.
C1_Witness ==
  \E i \in Calls :
    /\ upc[i] = "done"
    /\ conn = Undefined
    /\ ubuffer[i] = Buf(<<1>>)
    /\ ufileName[i] = Str(<<"a">>)
    /\ uresult[i].kind = "error"
    /\ netlog = <<>>

\* C2 as stated: a precondition violation is reported with the message of
\* the violated precondition, so the two violations can be told apart.
C2_DescriptiveErrors ==
  \A i \in Calls :
    upc[i] = "done" =>
      /\ (ubuffer[i] = Undefined \/ ufileName[i] = Undefined \/ ufileName[i].v = <<>>)
           => uresult[i].message = "Buffer and Filename are required"
      /\ (ubuffer[i].t = "object" /\ ufileName[i].t = "string"
            /\ ufileName[i].v # <<>> /\ conn = Undefined)
           => uresult[i].message = "Connection string is required"

\* the steps of a successful invocation: createIfNotExists once, then
\* uploadData once, then a URL naming the container
OrderedStepsAndUrl(i) ==
  /\ Cardinality(OpsOf(i, "create")) = 1
  /\ Cardinality(OpsOf(i, "upload")) = 1
  /\ \A c \in OpsOf(i, "create"), u \in OpsOf(i, "upload") : c < u
  /\ uresult[i].kind = "url"
  /\ uresult[i].url # <<>>
  /\ Contains(uresult[i].url, CONTAINER_NAME)

SucceededCall(i) ==
  /\ upc[i] = "done"
  /\ ReachedNetwork(i)
  /\ ubuffer[i].v # <<>>
  /\ ServiceSucceededFor(i)

\* C3 as stated: with valid inputs and a succeeding service the call
\* ensures the container, then uploads, each once, and returns a non-empty
\* URL that contains the container name and the fileName as supplied.
C3_UrlContainsFileNameVerbatim ==
  \A i \in Calls :
    SucceededCall(i) =>
      OrderedStepsAndUrl(i) /\ Contains(uresult[i].url, ufileName[i].v)

\* C3 amended: with valid inputs and a succeeding service the call ensures
\* the container, then uploads, each once, and returns a non-empty URL that
\* contains the container name and the fileName in URL-escaped form (the
\* fileName as supplied when none of its characters needs escaping).
C3_UrlContainsEscapedFileName ==
  \A i \in Calls :
    SucceededCall(i) =>
      /\ OrderedStepsAndUrl(i)
      /\ Contains(uresult[i].url, EscapePath(ufileName[i].v))
      /\ (EscapePath(ufileName[i].v) = ufileName[i].v
            => Contains(uresult[i].url, ufileName[i].v))

\* C3 witness: a call with a name that needs no escaping has returned its
\* URL after both steps.
C3_Witness ==
  \E i \in Calls :
    /\ SucceededCall(i)
    /\ ufileName[i] = Str(<<"a">>)
    /\ uresult[i].kind = "url"
    /\ Len(netlog) >= 2

\* C4: when a call that began after another had returned uses the same
\* fileName with a different buffer and both succeed, both return the same
\* URL and the blob holds the second call's buffer (as long as no further
\* call uploads under that name).
C4_SecondCallOverwrites ==
  \A k \in Calls, i \in Calls :
    ( /\ k \in upred[i]
      /\ upc[i] = "done"
      /\ ufileName[i] = ufileName[k]
      /\ ubuffer[i] # ubuffer[k]
      /\ uresult[k].kind = "url" /\ uresult[i].kind = "url"
      /\ \A m \in Calls \ {i, k} :
           ufileName[m] = ufileName[i] => OpsOf(m, "upload") = {} )
    => /\ uresult[i].url = uresult[k].url
       /\ blobs[ufileName[i].v] = ubuffer[i]

\* C4 witness: the second of two sequential calls has replaced <<1>> by
\* <<2>> under the name "a", the container existing before both.
C4_Witness ==
  \E k \in Calls, i \in Calls :
    /\ k \in upred[i]
    /\ ufileName[k] = Str(<<"a">>) /\ ufileName[i] = Str(<<"a">>)
    /\ ubuffer[k] = Buf(<<1>>) /\ ubuffer[i] = Buf(<<2>>)
    /\ uresult[k].kind = "url" /\ uresult[i].kind = "url"
    /\ blobs[<<"a">>] = Buf(<<2>>)

\* C5: each invocation issues createIfNotExists at most once and
\* uploadData at most once; after a failed createIfNotExists it issues no
\* uploadData; an invocation with a failed network step returns no URL and
\* ends with the error.
C5_FailurePropagatesOnce ==
  \A i \in Calls :
    /\ Cardinality(OpsOf(i, "create")) <= 1
    /\ Cardinality(OpsOf(i, "upload")) <= 1
    /\ (\E c \in OpsOf(i, "create") : netlog[c].outcome = "fail")
         => OpsOf(i, "upload") = {}
    /\ ~ServiceSucceededFor(i)
         => /\ upc[i] = "done"
            /\ uresult[i] = RestError

\* C5 witness: one invocation failed in createIfNotExists and another in
\* uploadData.
C5_Witness ==
  \E i \in Calls, k \in Calls :
    /\ upc[i] = "done" /\ upc[k] = "done"
    /\ \E c \in OpsOf(i, "create") : netlog[c].outcome = "fail"
    /\ \E u \in OpsOf(k, "upload") : netlog[u].outcome = "fail"

\* the invocations that reached the network steps
Networked == {i \in Calls : ReachedNetwork(i)}

\* C6: when two or more invocations with pairwise different fileNames have
\* all completed against a service that answered every request with
\* success, each of them returned a URL, the URLs differ, each URL names
\* the invocation's own blob, and each blob holds the buffer of the
\* invocation that named it.
C6_DifferentNamesIndependent ==
  ( /\ Cardinality(Networked) >= 2
    /\ \A i \in Networked : upc[i] = "done" /\ ServiceSucceededFor(i)
    /\ \A i \in Networked, k \in Networked :
         i # k => ufileName[i] # ufileName[k] )
  => \A i \in Networked :
       /\ uresult[i].kind = "url"
       /\ Contains(uresult[i].url, EscapePath(ufileName[i].v))
       /\ \A k \in Networked : i # k => uresult[i].url # uresult[k].url
       /\ blobs[ufileName[i].v] = ubuffer[i]

\* C6 witness: two invocations, both begun before either finished, on a
\* container that did not exist, have both created and uploaded, their
\* requests interleaved.
C6_Witness ==
  /\ NumCalls >= 2
  /\ upred[1] = {} /\ upred[2] = {}
  /\ upc[1] = "done" /\ upc[2] = "done"
  /\ ufileName[1] = Str(<<"a">>) /\ ufileName[2] = Str(<<"a", " ", "b">>)
  /\ Len(netlog) >= 4
  /\ netlog[1].op = "create" /\ netlog[2].op = "create"
  /\ netlog[1].inv # netlog[2].inv
  /\ uresult[1].kind = "url" /\ uresult[2].kind = "url"

\* positions in netlog of the successful uploads under the blob name n
UploadsTo(n) ==
  {k \in 1..Len(netlog) :
     /\ netlog[k].op = "upload"
     /\ netlog[k].outcome = "ok"
     /\ ufileName[netlog[k].inv].v = n}

Last(S) == CHOOSE k \in S : \A m \in S : m <= k

\* C7: a blob holds exactly the buffer of the invocation whose upload the
\* service processed last under its name (never a mixture, never an older
\* content), whatever the order in which the invocations began; a name
\* nothing was uploaded under holds nothing.
C7_LastWriteWins ==
  \A n \in BlobNames :
    IF UploadsTo(n) = {}
      THEN blobs[n] = Undefined
      ELSE blobs[n] = ubuffer[netlog[Last(UploadsTo(n))].inv]

\* C7 witness: two concurrent invocations with the same name; the one
\* whose createIfNotExists was processed first had its upload processed
\* last, and the blob holds its buffer.
C7_Witness ==
  \E i \in Calls, k \in Calls :
    /\ i # k
    /\ upred[i] = {} /\ upred[k] = {}
    /\ upc[i] = "done" /\ upc[k] = "done"
    /\ ufileName[i] = ufileName[k]
    /\ ubuffer[i] = Buf(<<1>>) /\ ubuffer[k] = Buf(<<2>>)
    /\ uresult[i].kind = "url" /\ uresult[k].kind = "url"
    /\ \A c \in OpsOf(i, "create"), d \in OpsOf(k, "create") : c < d
    /\ \A u \in OpsOf(i, "upload"), w \in OpsOf(k, "upload") : w < u
    /\ blobs[ufileName[i].v] = Buf(<<1>>)

\* ------------------------------------------------------------------------
\* Properties of RegisterUserScreen.handleSubmit
\* ------------------------------------------------------------------------
\* C8 as stated: no invocation of handleSubmit has its signup POST in
\* flight while an earlier invocation has not finished.
C8_SingleRequestInFlight ==
  \A j \in Presses, k \in Presses :
    (k < j /\ hpc[j] = "fetch") => hpc[k] \in {"idle", "done"}

Sent(j) == \E p \in posts : p.by = j

\* name, email and collegeName of a body non-blank, email well-formed
BodyValid(b) ==
  /\ b.name # <<>> /\ b.name = Trim(b.name)
  /\ b.email # <<>>
  /\ b.collegeName # <<>> /\ b.collegeName = Trim(b.collegeName)
  /\ EmailRegex(b.email)

\* C9: every signup POST carries a valid form (name, email and
\* collegeName non-blank after trimming, email well-formed) and a non-empty
\* token, and is sent with a user signed in; an invocation sends at most
\* one POST; the success alert, and so the navigation to HomeScreen, comes
\* only after a response with ok status.
C9_PostAndNavigationGuards ==
  /\ \A p \in posts :
       /\ BodyValid(p.body)
       /\ user
       /\ p.token.t = "string" /\ p.token.v # <<>>
  /\ \A j \in Presses :
       /\ Cardinality({p \in posts : p.by = j}) <= 1
       /\ halert[j] = "Success" => Sent(j) /\ hok[j]
  /\ navigated => \E j \in Presses : Sent(j) /\ hok[j]

\* C9 witness: navigation happened after an ok response although
\* user.reload() failed, while another invocation ended without a token
\* and without a request.
C9_Witness ==
  /\ navigated
  /\ \E j \in Presses : halert[j] = "Success" /\ hreload[j] = "throw"
  /\ \E k \in Presses : hpc[k] = "done" /\ halert[k] = "Error" /\ ~Sent(k)

\* C10: no invocation stays for ever with setIsSubmitting(true) as its
\* last call (it calls setIsSubmitting(false) later, whatever its exit
\* path); neither the state nor the rendered form stays disabled for ever;
\* an invocation stopped by validation never calls setIsSubmitting.
C10_SubmittingAlwaysReset ==
  /\ \A j \in Presses : []<>(hsub[j] # "true")
  /\ []<>(~isSubmitting)
  /\ []<>(~view.isSubmitting)
  /\ [](\A j \in Presses : halert[j] = "Validation Error" => hsub[j] = "none")

\* C10 witness: one invocation ended in the catch block and another was
\* stopped by validation; the form is enabled again.
C10_Witness ==
  /\ \E j \in Presses :
       hpc[j] = "done" /\ halert[j] = "Registration Failed" /\ hsub[j] = "false"
  /\ \E k \in Presses :
       hpc[k] = "done" /\ halert[k] = "Validation Error" /\ hsub[k] = "none"
  /\ ~isSubmitting /\ ~view.isSubmitting

====
